---- MODULE Spec2Model ----
(***************************************************************************)
(* Model of the entity highlighter of src/script.js: extractEntities(),    *)
(* highlightEntities() and createEntityChart(), and of the summarizer of   *)
(* src/unnamed/part_000: summarizeText() and mockSummarizeText().  The two *)
(* are separate pages, so each has its own specification.  Strings are     *)
(* sequences of one-character strings; offsets are 0-based as in           *)
(* JavaScript, so the character at offset i of s is s[i+1].                *)
(***************************************************************************)
EXTENDS Integers, Sequences, FiniteSets, TLC

\* ------------------------------------------------------------------ bounds
MaxTextLen == 4
MaxEntities == 2
MaxSumLen == 7
MaxPending == 2
MaxCoreSpans == 1
MaxEvents == 3

\* ------------------------------------------------------- characters, \w
LowerLetters ==
  <<"a","b","c","d","e","f","g","h","i","j","k","l","m",
    "n","o","p","q","r","s","t","u","v","w","x","y","z">>

UpperLetters ==
  <<"A","B","C","D","E","F","G","H","I","J","K","L","M",
    "N","O","P","Q","R","S","T","U","V","W","X","Y","Z">>

Digits == {"0","1","2","3","4","5","6","7","8","9"}

WordChars ==
  {LowerLetters[i] : i \in DOMAIN LowerLetters}
    \cup {UpperLetters[i] : i \in DOMAIN UpperLetters}
    \cup Digits \cup {"_"}

\* \w of a RegExp without the u flag: [A-Za-z0-9_]
IsWordChar(c) == c \in WordChars

UpperOf == [c \in {LowerLetters[i] : i \in DOMAIN LowerLetters} |->
              UpperLetters[CHOOSE i \in DOMAIN LowerLetters : LowerLetters[i] = c]]

LowerOf == [c \in {UpperLetters[i] : i \in DOMAIN UpperLetters} |->
              LowerLetters[CHOOSE i \in DOMAIN UpperLetters : UpperLetters[i] = c]]

\* String.prototype.toUpperCase, one character
ToUpperCase(c) == IF c \in DOMAIN UpperOf THEN UpperOf[c] ELSE c

\* String.prototype.toLowerCase, one character
ToLowerCaseChar(c) == IF c \in DOMAIN LowerOf THEN LowerOf[c] ELSE c

\* entity.label.toLowerCase()
ToLowerCase(s) == [i \in DOMAIN s |-> ToLowerCaseChar(s[i])]

WhiteSpace == {" ", "\t", "\n", "\r"}

\* String.prototype.trim
RECURSIVE TrimStart(_)
TrimStart(s) ==
  IF s # <<>> /\ Head(s) \in WhiteSpace THEN TrimStart(Tail(s)) ELSE s

RECURSIVE TrimEnd(_)
TrimEnd(s) ==
  IF s # <<>> /\ s[Len(s)] \in WhiteSpace
    THEN TrimEnd(SubSeq(s, 1, Len(s) - 1))
    ELSE s

\* a trim that removes nothing
TrimNothing(s) == s

Trim(s) == TrimEnd(TrimStart(s))

\* ------------------------------------------------- String.lastIndexOf
\* text.lastIndexOf(lit): scan start offsets from the right, -1 when absent
RECURSIVE LastIndexFrom(_, _, _)
LastIndexFrom(text, lit, k) ==
  IF k < 0 THEN -1
  ELSE IF SubSeq(text, k + 1, k + Len(lit)) = lit THEN k
  ELSE LastIndexFrom(text, lit, k - 1)

LastIndexOf(text, lit) == LastIndexFrom(text, lit, Len(text) - Len(lit))

\* ----------------------------------------------------- Array.sort (234)
\* the comparator with its operands exchanged, which sorts ascending
SortCompareAscending(text, a, b) ==
  LastIndexOf(text, a.text) - LastIndexOf(text, b.text)

\* the comparator (a, b) => text.lastIndexOf(b.text) - text.lastIndexOf(a.text)
SortCompare(text, a, b) == LastIndexOf(text, b.text) - LastIndexOf(text, a.text)

\* an insertion that places an element before the elements it compares equal
\* to, which no stable sort does
RECURSIVE InsertAtBeforeEqual(_, _, _, _, _)
InsertAtBeforeEqual(text, ents, acc, x, j) ==
  IF j = 0 \/ SortCompare(text, ents[acc[j]], ents[x]) < 0
    THEN SubSeq(acc, 1, j) \o <<x>> \o SubSeq(acc, j + 1, Len(acc))
    ELSE InsertAtBeforeEqual(text, ents, acc, x, j - 1)

\* Array.prototype.sort is stable: an element is placed after every element
\* that does not compare greater than it.  acc and the result hold indices
\* into ents.
RECURSIVE InsertAt(_, _, _, _, _)
InsertAt(text, ents, acc, x, j) ==
  IF j = 0 \/ SortCompare(text, ents[acc[j]], ents[x]) <= 0
    THEN SubSeq(acc, 1, j) \o <<x>> \o SubSeq(acc, j + 1, Len(acc))
    ELSE InsertAt(text, ents, acc, x, j - 1)

RECURSIVE SortFrom(_, _, _, _)
SortFrom(text, ents, acc, x) ==
  IF x > Len(ents) THEN acc
  ELSE SortFrom(text, ents, InsertAt(text, ents, acc, x, Len(acc)), x + 1)

\* the order in which entities.sort(...) leaves the elements of ents
SortedOrder(text, ents) == SortFrom(text, ents, <<>>, 1)

ArraySort(text, ents) ==
  LET p == SortedOrder(text, ents) IN [i \in DOMAIN ents |-> ents[p[i]]]

\* ------------------------------------------------- the RegExp of line 237
\* the class [.*+?^${}()|[\]\\] of the escaping replace
MetaChars == {".", "*", "+", "?", "^", "$", "{", "}", "(", ")", "|", "[", "]", "\\"}

\* a replace that escapes nothing
EscapeRegExpNothing(s) == s

\* entity.text.replace(/[.*+?^${}()|[\]\\]/g, '\\$&'): a backslash before
\* every metacharacter, every other character unchanged
RECURSIVE EscapeRegExp(_)
EscapeRegExp(s) ==
  IF s = <<>> THEN <<>>
  ELSE (IF Head(s) \in MetaChars THEN <<"\\", Head(s)>> ELSE <<Head(s)>>)
         \o EscapeRegExp(Tail(s))

\* the pattern source `\\b${...}\\b`
PatternSource(lit) == <<"\\", "b">> \o EscapeRegExp(lit) \o <<"\\", "b">>

\* The pattern read as a RegExp: \b is the word-boundary assertion, a
\* backslash before any other character makes it a literal, and unescaped
\* . ^ $ are the wildcard and the input-edge assertions.
RECURSIVE ParsePattern(_)
ParsePattern(p) ==
  IF p = <<>> THEN <<>>
  ELSE IF Head(p) = "\\" /\ Len(p) >= 2
    THEN <<IF p[2] = "b" THEN [kind |-> "wordb", ch |-> ""]
                         ELSE [kind |-> "char", ch |-> p[2]]>>
           \o ParsePattern(SubSeq(p, 3, Len(p)))
  ELSE <<CASE Head(p) = "." -> [kind |-> "any", ch |-> ""]
           [] Head(p) = "^" -> [kind |-> "bol", ch |-> ""]
           [] Head(p) = "$" -> [kind |-> "eol", ch |-> ""]
           [] OTHER -> [kind |-> "char", ch |-> Head(p)]>>
         \o ParsePattern(Tail(p))

\* new RegExp(`\\b...\\b`, 'gi')
EntityRegExp(entity) == ParsePattern(PatternSource(entity.text))

\* \b at offset i of s: exactly one of s[i-1], s[i] is a word character
IsWordBoundary(s, i) ==
  (i > 0 /\ IsWordChar(s[i])) # (i < Len(s) /\ IsWordChar(s[i + 1]))

\* the i flag: characters are compared after Canonicalize (toUpperCase)
Canonicalize(c) == ToUpperCase(c)

LineTerminators == {"\n", "\r"}

\* the atoms from the k-th on matched at offset i: the end offset, or -1
RECURSIVE MatchAtoms(_, _, _, _)
MatchAtoms(atoms, k, s, i) ==
  IF k > Len(atoms) THEN i
  ELSE LET a == atoms[k] IN
    CASE a.kind = "wordb" ->
           IF IsWordBoundary(s, i) THEN MatchAtoms(atoms, k + 1, s, i) ELSE -1
      [] a.kind = "bol" ->
           IF i = 0 THEN MatchAtoms(atoms, k + 1, s, i) ELSE -1
      [] a.kind = "eol" ->
           IF i = Len(s) THEN MatchAtoms(atoms, k + 1, s, i) ELSE -1
      [] a.kind = "any" ->
           IF i < Len(s) /\ s[i + 1] \notin LineTerminators
             THEN MatchAtoms(atoms, k + 1, s, i + 1) ELSE -1
      [] OTHER ->
           IF i < Len(s) /\ Canonicalize(s[i + 1]) = Canonicalize(a.ch)
             THEN MatchAtoms(atoms, k + 1, s, i + 1) ELSE -1

\* the offsets of s at which the pattern matches
MatchOffsets(atoms, s) == {i \in 0..Len(s) : MatchAtoms(atoms, 1, s, i) # -1}

\* the g flag: the matches of repeated exec from lastIndex i, each at the
\* least matching offset at or after lastIndex, so left to right and not
\* overlapping; after an empty match lastIndex advances by one
RECURSIVE ExecFrom(_, _, _, _)
ExecFrom(atoms, s, offsets, i) ==
  LET later == {j \in offsets : j >= i} IN
    IF later = {} THEN <<>>
    ELSE LET j == CHOOSE x \in later : \A y \in later : x <= y
             e == MatchAtoms(atoms, 1, s, j)
         IN <<[start |-> j, end |-> e]>>
              \o ExecFrom(atoms, s, offsets, IF e = j THEN j + 1 ELSE e)

ExecAll(atoms, s, i) == ExecFrom(atoms, s, MatchOffsets(atoms, s), i)

\* ------------------------------------------ String.replace (238-240)
\* the character U+0060, which a TLA+ string cannot hold
Grave == "grave"

\* the index of the next $ of repl at or after index k, Len(repl) + 1 if none
NextDollar(repl, k) ==
  LET D == {d \in k..Len(repl) : repl[d] = "$"} IN
    IF D = {} THEN Len(repl) + 1 ELSE CHOOSE d \in D : \A x \in D : d <= x

\* GetSubstitution for a RegExp without capture groups: $$, $&, $ U+0060 and
\* $ U+0027 are expanded, every other $ stays
RECURSIVE GetSubstitution(_, _, _, _)
GetSubstitution(repl, k, s, m) ==
  IF k > Len(repl) THEN <<>>
  ELSE IF repl[k] = "$" /\ k < Len(repl) /\ repl[k + 1] \in {"$", "&", Grave, "'"}
    THEN (CASE repl[k + 1] = "$" -> <<"$">>
            [] repl[k + 1] = "&" -> SubSeq(s, m.start + 1, m.end)
            [] repl[k + 1] = Grave -> SubSeq(s, 1, m.start)
            [] OTHER -> SubSeq(s, m.end + 1, Len(s)))
           \o GetSubstitution(repl, k + 2, s, m)
  ELSE IF repl[k] = "$"
    THEN <<"$">> \o GetSubstitution(repl, k + 1, s, m)
  ELSE LET d == NextDollar(repl, k) IN
    SubSeq(repl, k, d - 1) \o GetSubstitution(repl, d, s, m)

\* the result string: the text between matches copied, each match replaced
RECURSIVE ReplaceMatches(_, _, _, _, _)
ReplaceMatches(s, ms, k, pos, repl) ==
  IF k > Len(ms) THEN SubSeq(s, pos + 1, Len(s))
  ELSE SubSeq(s, pos + 1, ms[k].start)
         \o GetSubstitution(repl, 1, s, ms[k])
         \o ReplaceMatches(s, ms, k + 1, ms[k].end, repl)

StringReplace(s, atoms, repl) == ReplaceMatches(s, ExecAll(atoms, s, 0), 1, 0, repl)

\* the replacement template of line 239
SpanOpenA ==
  <<"<","s","p","a","n"," ","c","l","a","s","s","=","\"",
    "e","n","t","i","t","y","-","h","i","g","h","l","i","g","h","t"," ",
    "e","n","t","i","t","y","-">>

SpanOpenB == <<"\""," ","t","i","t","l","e","=","\"">>

SpanOpenC == <<"\"",">">>

SpanClose == <<"<","/","s","p","a","n",">">>

Replacement(entity) ==
  SpanOpenA \o ToLowerCase(entity.label) \o SpanOpenB \o entity.description
    \o SpanOpenC \o entity.text \o SpanClose

\* one iteration of the forEach of lines 236-241
HighlightOne(highlightedText, entity) ==
  StringReplace(highlightedText, EntityRegExp(entity), Replacement(entity))

\* highlightEntities(text, entities) as a function: its return value
RECURSIVE HighlightFrom(_, _, _)
HighlightFrom(highlightedText, ents, k) ==
  IF k > Len(ents) THEN highlightedText
  ELSE HighlightFrom(HighlightOne(highlightedText, ents[k]), ents, k + 1)

HighlightEntities(text, ents) == HighlightFrom(text, ArraySort(text, ents), 1)

\* The spans highlightEntities names to its caller as unmatched: line 243
\* returns highlightedText alone, so none.
UnmatchedReported == {}

\* createEntityChart: entityCounts[label] = (entityCounts[label] || 0) + 1
RECURSIVE CountLabels(_, _, _)
CountLabels(ents, k, counts) ==
  IF k > Len(ents) THEN counts
  ELSE LET l == ents[k].label
           n == IF l \in DOMAIN counts THEN counts[l] ELSE 0
       IN CountLabels(ents, k + 1,
            [c \in DOMAIN counts \cup {l} |-> IF c = l THEN n + 1 ELSE counts[c]])

\* a count that is set to 1 instead of incremented
EntityCountsNoIncrement(ents) == [l \in {ents[k].label : k \in DOMAIN ents} |-> 1]

EntityCounts(ents) == CountLabels(ents, 1, <<>>)

\* ------------------------------------------------------------ the inputs
\* a word character and a metacharacter that is no word character
Alphabet == {"a", "$"}

\* texts with white space and with the other letter case: blank, padded,
\* two words, an upper-case word
OtherTexts ==
  {<<" ">>, <<" ", "a", " ">>, <<"a", " ", "a">>, <<"A">>, <<"A", " ", "a">>}

Texts == UNION {[1..n -> Alphabet] : n \in 0..MaxTextLen} \cup OtherTexts

\* What nlp.extractEntities(text) returns: records {text, label, description}
\* of a dictionary recogniser.  The literals are a word in both cases, a
\* literal that begins and ends with a non-word character, and a word of the
\* wrapper markup.
EntityRecords ==
  { [text |-> <<"a">>, label |-> <<"O", "R", "G">>, description |-> <<"d">>],
    [text |-> <<"A">>, label |-> <<"O", "R", "G">>, description |-> <<"d">>],
    [text |-> <<"$", "$">>, label |-> <<"M", "O", "N", "E", "Y">>,
       description |-> <<"d">>],
    [text |-> <<"s", "p", "a", "n">>, label |-> <<"L", "O", "C">>,
       description |-> <<"d">>] }

EntityLists == UNION {[1..n -> EntityRecords] : n \in 0..MaxEntities}

\* ---------------------------------------------------------------- state
VARIABLES
  nerText,          \* value of the textarea #nerText
  pc,               \* position in extractEntities()
  text,             \* const text of extractEntities / parameter of highlightEntities
  entities,         \* the array returned by nlp.extractEntities, sorted in place
  highlightedText,  \* let highlightedText of highlightEntities
  idx,              \* forEach index, 1-based
  entityCounts,     \* const entityCounts of createEntityChart
  input,            \* history: the array as nlp.extractEntities returned it
  order,            \* history: order[i] is the index in input of entities[i]
  log,              \* history: per iteration, the string searched, the kinds of
                    \*   its characters and the matches replaced
  kinds             \* history: per character of highlightedText, "T" (of the text),
                    \*   "M" (inserted markup) or "L" (inserted entity.text)

\* the summarizer page (index.html, part_000)
VARIABLES
  summarizationText,     \* value of the textarea #summarization-text
  summaryRatio,          \* value of the range input #summary-ratio
  ratioValue,            \* textContent of #ratio-value
  alertOpen,             \* an alert() of summarizeText is on screen
  loadingOverlay,        \* #loading-overlay has the class "show"
  timers,                \* the pending setTimeout callbacks in the order they
                         \*   were set: the operation, its delay, what it captured
  summarizationResults,  \* what #summarization-results shows
  hasContent,            \* #summarization-results has the class "has-content"
  result,                \* history: what the last mockSummarizeText call returned
  summarized,            \* history: the argument of that call
  sentences,             \* history: const sentences of that call
  selected               \* history: sentences.slice(0, summaryLength) of that call

nerVars ==
  <<nerText, pc, text, entities, highlightedText, idx, entityCounts,
    input, order, log, kinds>>

sumVars ==
  <<summarizationText, summaryRatio, ratioValue, alertOpen, loadingOverlay,
    timers, summarizationResults, hasContent, result, summarized, sentences,
    selected>>

\* the two core functions called on their own
VARIABLES
  coreText,    \* the string passed to highlightEntities and to mockSummarizeText
  coreSpans,   \* the array passed to highlightEntities, sorted in place
  corePc,      \* "ready", then "highlighted", then "summarized"
  coreOut,     \* what highlightEntities returned
  coreResult,  \* what mockSummarizeText returned
  coreThrew    \* an exception left one of the two calls

coreVars == <<coreText, coreSpans, corePc, coreOut, coreResult, coreThrew>>

\* the rest of the NLPAssistant page (index.html, part_000); the summarizer
\* variables above belong to the same page
VARIABLES
  fields,             \* the values of the text inputs, by element id
  targetLang,         \* value of the select #target-lang
  generationSelect,   \* value of the select #generation-select
  generationForm,     \* which form updateGenerationForm put into #generation-form
  results,            \* what each results container shows, by element id
  resultsHasContent,  \* the containers with the class "has-content"
  usageStats,         \* this.usageStats
  statDisplay,        \* textContent of the three .stat-value elements, by id
  currentTool,        \* this.currentTool
  activeIds,          \* the ids of the elements with the class "active"
  toolSelect,         \* value of the select #nlp-tool-select
  shownFrom,          \* history: per container, the callback that filled it
                      \* and the result its mock core returned
  thrown,             \* history: the TypeErrors that left a handler
  events,             \* history: the number of user events so far
  invocations         \* history: per operation, its invocations that passed the guard

uiVars ==
  <<fields, targetLang, generationSelect, generationForm, results,
    resultsHasContent, usageStats, statDisplay, currentTool, activeIds,
    toolSelect, shownFrom, thrown, events, invocations>>

\* the page state apart from the count of user events
uiShown ==
  <<fields, targetLang, generationSelect, generationForm, results,
    resultsHasContent, usageStats, statDisplay, currentTool, activeIds,
    toolSelect, shownFrom, thrown, invocations>>

\* the page of script.js: what the handlers of its NER form and of its chat
\* leave on the page
VARIABLES
  nerResults,    \* content of #nerResults
  entityChart,   \* the labels and values createEntityChart last plotted
  chatInput,     \* value of the input #chatInput
  chatMessages,  \* the message elements of #chatMessages, in document order
  chatHistory    \* let chatHistory

pageVars == <<nerResults, entityChart, chatInput, chatMessages, chatHistory>>

laterVars == <<coreVars, uiVars, pageVars>>

vars == <<nerVars, sumVars, laterVars>>

\* <input type="range" id="summary-ratio" min="10" max="80" value="30">
SummaryRatioMin == 10

SummaryRatioMax == 80

SummaryRatioDefault == 30

DigitChars == <<"0", "1", "2", "3", "4", "5", "6", "7", "8", "9">>

\* the decimal digits of a natural number, as the value of a range input
RECURSIVE NumberToString(_)
NumberToString(n) ==
  IF n < 10 THEN <<DigitChars[n + 1]>>
  ELSE NumberToString(n \div 10) \o <<DigitChars[(n % 10) + 1]>>

\* what mockSummarizeText returns, before any call
NoResult ==
  [summary |-> <<>>, original_length |-> 0, summary_length |-> 0,
   compression_ratio |-> [num |-> 0, den |-> 1],
   sentences_used |-> 0, total_sentences |-> 0]

\* the summarizer page as loaded: index.html lines 342, 365, 366, 376
SumLoaded ==
  /\ summaryRatio = SummaryRatioDefault
  /\ ratioValue = <<"3", "0", "%">>
  /\ alertOpen = FALSE
  /\ loadingOverlay = FALSE
  /\ timers = <<>>
  /\ summarizationResults = [shown |-> "placeholder"]
  /\ hasContent = FALSE
  /\ result = NoResult
  /\ summarized = <<>>
  /\ sentences = <<>>
  /\ selected = <<>>

\* the highlighter page before extractEntities is called
NerLoaded ==
  /\ pc = "idle"
  /\ text = <<>>
  /\ entities = <<>>
  /\ highlightedText = <<>>
  /\ idx = 0
  /\ entityCounts = <<>>
  /\ input = <<>>
  /\ order = <<>>
  /\ log = <<>>
  /\ kinds = <<>>

\* no call of the core functions on their own
CoreIdle ==
  /\ coreText = <<>>
  /\ coreSpans = <<>>
  /\ corePc = "ready"
  /\ coreOut = <<>>
  /\ coreResult = NoResult
  /\ coreThrew = FALSE

\* ids of the text inputs other than #summarization-text
FieldIds ==
  {"classification-text", "sentiment-text", "translation-text", "qa-context",
   "qa-question", "ner-text"}

\* ids of the results containers other than #summarization-results
ContainerIds ==
  {"classification-results", "generation-results", "sentiment-results",
   "translation-results", "qa-results", "ner-results"}

\* the content sections of index.html, which are the options of #nlp-tool-select
Sections ==
  {"home", "text-classification", "text-generation", "text-summarization",
   "sentiment-analysis", "translation", "question-answering", "ner"}

\* the ids switchTool is called with that name an element: the sections and
\* another element of index.html
ElementIds == Sections \cup {"loading-overlay"}

\* "Results will appear here after processing..."
Placeholder == [shown |-> "placeholder"]

\* initializeUsageStats, lines 102-108
InitialUsageStats ==
  ("Text Classification" :> 0) @@ ("Text Generation" :> 0)
    @@ ("Sentiment Analysis" :> 0)

\* updateUsageDisplay, lines 117-130: the three counters by element id
UsageDisplay(stats) ==
  ("stat-classification" :> stats["Text Classification"])
    @@ ("stat-generation" :> stats["Text Generation"])
    @@ ("stat-sentiment" :> stats["Sentiment Analysis"])

\* the NLPAssistant page after the constructor (lines 3-9) has run, apart
\* from the text inputs
UiConstructed ==
  /\ targetLang = "es"
  /\ generationSelect = <<"s", "t", "o", "r", "y">>
  /\ generationForm = <<"s", "t", "o", "r", "y">>
  /\ results = [c \in ContainerIds |-> Placeholder]
  /\ resultsHasContent = {}
  /\ usageStats = InitialUsageStats
  /\ statDisplay = UsageDisplay(InitialUsageStats)
  /\ currentTool = "home"
  /\ activeIds = {"home"}
  /\ toolSelect = "home"
  /\ shownFrom = [c \in ContainerIds |->
                    [args |-> <<>>, dom |-> <<>>, result |-> <<>>]]
  /\ thrown = 0
  /\ events = 0
  /\ invocations = [classify |-> 0, generate |-> 0, sentiment |-> 0]

\* the page as loaded: the text inputs are empty
UiLoaded ==
  /\ fields = [f \in FieldIds |-> <<>>]
  /\ UiConstructed

\* a message element of #chatMessages: the sender of its class, the text
\* content, and the analysis line when there is one
Message(content, sender, analysis) ==
  [sender |-> sender, content |-> content, analysis |-> analysis]

\* the greeting clearChat writes (lines 91-97), kept as one token
Greeting ==
  Message(<<"Hello! I'm an AI assistant with NLP capabilities. How can I help you today?">>,
          "bot", <<>>)

\* The page of script.js as loaded: its markup is not part of the sources;
\* #nerResults is taken to be empty and #chatMessages to hold the greeting.
PageShown ==
  /\ nerResults = [shown |-> "nothing"]
  /\ entityChart = <<>>
  /\ chatMessages = <<Greeting>>
  /\ chatHistory = <<>>

\* nothing is typed into #chatInput
PageLoaded == PageShown /\ chatInput = <<>>

LaterLoaded == CoreIdle /\ UiLoaded /\ PageLoaded

Init ==
  /\ summarizationText = <<>>
  /\ SumLoaded
  /\ LaterLoaded
  /\ nerText \in Texts
  /\ pc = "idle"
  /\ text = <<>>
  /\ entities = <<>>
  /\ highlightedText = <<>>
  /\ idx = 0
  /\ entityCounts = <<>>
  /\ input = <<>>
  /\ order = <<>>
  /\ log = <<>>
  /\ kinds = <<>>

\* extractEntities(), lines 181-197: the empty-text guard, the call of
\* nlp.extractEntities, the no-entity warning
ExtractEntities ==
  /\ pc = "idle"
  /\ text' = Trim(nerText)
  /\ IF text' = <<>>
       THEN /\ pc' = "error"
            /\ UNCHANGED <<entities, input>>
       ELSE \E ents \in EntityLists :
              /\ entities' = ents
              /\ input' = ents
              /\ pc' = IF Len(ents) = 0 THEN "warning" ELSE "sort"
  /\ UNCHANGED <<nerText, highlightedText, idx, entityCounts, order, log, kinds>>
  /\ UNCHANGED <<sumVars, laterVars>>

\* highlightEntities, lines 231-234: highlightedText = text; entities.sort(...)
HighlightSort ==
  /\ pc = "sort"
  /\ highlightedText' = text
  /\ kinds' = [i \in DOMAIN text |-> "T"]
  /\ order' = SortedOrder(text, entities)
  /\ entities' = ArraySort(text, entities)
  /\ idx' = 1
  /\ pc' = "forEach"
  /\ UNCHANGED <<nerText, text, entityCounts, input, log>>
  /\ UNCHANGED <<sumVars, laterVars>>

Repeat(c, n) == [i \in 1..n |-> c]

\* the kinds of the characters one replacement inserts
ReplacementKinds(entity, s, m) ==
  LET all == Len(GetSubstitution(Replacement(entity), 1, s, m))
      lit == Len(GetSubstitution(entity.text, 1, s, m))
  IN Repeat("M", all - lit - Len(SpanClose)) \o Repeat("L", lit)
       \o Repeat("M", Len(SpanClose))

RECURSIVE ReplaceKinds(_, _, _, _, _, _)
ReplaceKinds(ks, s, ms, k, pos, entity) ==
  IF k > Len(ms) THEN SubSeq(ks, pos + 1, Len(ks))
  ELSE SubSeq(ks, pos + 1, ms[k].start)
         \o ReplacementKinds(entity, s, ms[k])
         \o ReplaceKinds(ks, s, ms, k + 1, ms[k].end, entity)

\* one iteration of entities.forEach, lines 236-241
HighlightReplace ==
  /\ pc = "forEach"
  /\ idx <= Len(entities)
  /\ LET entity == entities[idx]
         ms == ExecAll(EntityRegExp(entity), highlightedText, 0)
     IN /\ highlightedText' = HighlightOne(highlightedText, entity)
        /\ log' = Append(log, [src |-> highlightedText, kinds |-> kinds, ms |-> ms])
        /\ kinds' = ReplaceKinds(kinds, highlightedText, ms, 1, 0, entity)
  /\ idx' = idx + 1
  /\ UNCHANGED <<nerText, pc, text, entities, entityCounts, input, order>>
  /\ UNCHANGED <<sumVars, laterVars>>

\* line 243, return highlightedText: the value is placed in the result card
HighlightReturn ==
  /\ pc = "forEach"
  /\ idx > Len(entities)
  /\ pc' = "chart"
  /\ UNCHANGED <<nerText, text, entities, highlightedText, idx, entityCounts,
                 input, order, log, kinds>>
  /\ UNCHANGED <<sumVars, laterVars>>

\* createEntityChart(entities), lines 246-250
CreateEntityChart ==
  /\ pc = "chart"
  /\ entityCounts' = EntityCounts(entities)
  /\ pc' = "shown"
  /\ UNCHANGED <<nerText, text, entities, highlightedText, idx,
                 input, order, log, kinds>>
  /\ UNCHANGED <<sumVars, laterVars>>

Next ==
  \/ ExtractEntities
  \/ HighlightSort
  \/ HighlightReplace
  \/ HighlightReturn
  \/ CreateEntityChart

Spec == Init /\ [][Next]_vars

\* ------------------------------------------ mockSummarizeText (366-379)
\* String.prototype.split with a one-character separator: the pieces between
\* the separators, empty pieces included; the empty string gives [""]
RECURSIVE SplitFrom(_, _, _)
SplitFrom(s, sep, start) ==
  LET later == {i \in start..Len(s) : s[i] = sep} IN
    IF later = {} THEN <<SubSeq(s, start, Len(s))>>
    ELSE LET i == CHOOSE x \in later : \A y \in later : x <= y
         IN <<SubSeq(s, start, i - 1)>> \o SplitFrom(s, sep, i + 1)

Split(s, sep) == SplitFrom(s, sep, 1)

\* a filter predicate that keeps white-space fragments
IsSentenceUntrimmed(s) == Len(s) > 0

\* the filter predicate s => s.trim().length > 0
IsSentence(s) == Len(Trim(s)) > 0

\* text.split('.').filter(s => s.trim().length > 0): the fragments are kept
\* as split, the trim is applied for the test only
Sentences(t) == SelectSeq(Split(t, "."), IsSentence)

\* a length without the cap
SummaryLengthUncapped(sents) == Len(sents)

\* Math.min(3, sentences.length)
SummaryLength(sents) == IF Len(sents) < 3 THEN Len(sents) ELSE 3

\* a slice that takes the last n elements
SliceLast(sents, n) == SubSeq(sents, Len(sents) - n + 1, Len(sents))

\* sentences.slice(0, n)
Slice(sents, n) == SubSeq(sents, 1, n)

\* Array.prototype.join
RECURSIVE Join(_, _)
Join(parts, sep) ==
  IF parts = <<>> THEN <<>>
  ELSE IF Len(parts) = 1 THEN parts[1]
  ELSE parts[1] \o sep \o Join(Tail(parts), sep)

\* sentences.slice(0, summaryLength)
Selected(sents) == Slice(sents, SummaryLength(sents))

\* sentences.slice(0, summaryLength).join('. ') + '.'
Summary(sents) == Join(Selected(sents), <<".", " ">>) \o <<".">>

RECURSIVE GCD(_, _)
GCD(a, b) == IF b = 0 THEN a ELSE GCD(b, a % b)

\* a / b of two lengths: the quotient as a fraction in lowest terms, since the
\* double keeps the value and not the operands.  den = 0 stands for the two
\* results of a division by zero: Infinity (num = 1) and NaN (num = 0).
Divide(a, b) ==
  IF b = 0 THEN [num |-> IF a = 0 THEN 0 ELSE 1, den |-> 0]
  ELSE [num |-> a \div GCD(a, b), den |-> b \div GCD(a, b)]

\* a ratio of the two word counts
CompressionRatioOfWords(summary, t) ==
  Divide(Len(Split(summary, " ")), Len(Split(t, " ")))

\* summary.length / text.length
CompressionRatio(summary, t) == Divide(Len(summary), Len(t))

MockSummarizeText(t) ==
  LET sents == Sentences(t)
      summaryLength == SummaryLength(sents)
      summary == Summary(sents)
  IN [summary |-> summary,
      original_length |-> Len(Split(t, " ")),
      summary_length |-> Len(Split(summary, " ")),
      compression_ratio |-> CompressionRatio(summary, t),
      sentences_used |-> summaryLength,
      total_sentences |-> Len(sents)]

\* (x * 100).toFixed(1) of a finite ratio, in tenths of a percent: the integer
\* n with n / 10 nearest to x * 100, the larger one of two
ToFixed1(x) == (2000 * x.num + x.den) \div (2 * x.den)

\* the values displaySummarizationResults (381-406) interpolates
SummarizationHtml(r) ==
  [shown |-> "summary",
   summary |-> r.summary,
   original_words |-> r.original_length,
   summary_words |-> r.summary_length,
   compression |-> ToFixed1(r.compression_ratio),
   sentences |-> <<r.sentences_used, r.total_sentences>>]

\* ---------------------------------------------- the summarizer's inputs
SumAlphabet == {"a", ".", " "}

\* the spec's five-sentence example, texts with the other sentence marks,
\* with a tab and with a line feed between words, and four distinct sentences
OtherSumTexts ==
  { <<"A", ".", " ", "B", ".", " ", "C", ".", " ", "D", ".", " ", "E", ".">>,
    <<"a", "!", "a", "?", "a">>,
    <<"a", "!", " ", "a", ".", " ", ".", "a", "?">>,
    <<"a", "\t", "a">>,
    <<"a", "\n", "a", ".">>,
    <<"A", ".", "B", ".", "C", ".", "D">> }

SumTexts == UNION {[1..n -> SumAlphabet] : n \in 0..MaxSumLen} \cup OtherSumTexts

\* positions of the slider: the two ends and the default
SummaryRatios == {SummaryRatioMin, SummaryRatioDefault, SummaryRatioMax}

\* ------------------------------------------------ the summarizer's steps
InitSum ==
  /\ nerText = <<>>
  /\ NerLoaded
  /\ summarizationText \in SumTexts
  /\ SumLoaded
  /\ LaterLoaded

\* the input listener of #summary-ratio, part_000 lines 15-21
SetSummaryRatio ==
  /\ ~alertOpen
  /\ \E v \in SummaryRatios \ {summaryRatio} :
       /\ summaryRatio' = v
       /\ ratioValue' = NumberToString(v) \o <<"%">>
  /\ UNCHANGED <<summarizationText, alertOpen, loadingOverlay, timers,
                 summarizationResults, hasContent, result, summarized,
                 sentences, selected>>
  /\ UNCHANGED <<nerVars, laterVars>>

\* the delay each operation of NLPAssistant passes to setTimeout, in ms
TimerDelay ==
  [classify |-> 1500, generate |-> 2000, summarize |-> 2000, sentiment |-> 1500,
   translate |-> 1500, answer |-> 2000, ner |-> 1500]

\* a pending callback of operation op whose closure holds args; dom is
\* history: the values, when the callback was set, of the page inputs the
\* callback reads when it runs
Timer(op, args, dom) ==
  [op |-> op, delay |-> TimerDelay[op], args |-> args, dom |-> dom]

\* The i-th pending callback can be the next to run unless a callback set
\* before it has a delay that is not longer: that one expires first.
CanFire(ts, i) == \A j \in 1..(i - 1) : ts[j].delay > ts[i].delay

WithoutTimer(ts, i) == SubSeq(ts, 1, i - 1) \o SubSeq(ts, i + 1, Len(ts))

\* summarizeText(), lines 351-363 up to the return: getInputText trims the
\* textarea value; the guard alerts; otherwise showLoading and setTimeout
SummarizeTextCall ==
  /\ ~alertOpen
  /\ LET t == Trim(summarizationText) IN
       IF t = <<>>
         THEN /\ alertOpen' = TRUE
              /\ UNCHANGED <<loadingOverlay, timers>>
         ELSE /\ loadingOverlay' = TRUE
              /\ timers' = Append(timers, Timer("summarize", <<t>>, <<>>))
              /\ UNCHANGED alertOpen
  /\ UNCHANGED <<summarizationText, summaryRatio, ratioValue,
                 summarizationResults, hasContent, result, summarized,
                 sentences, selected>>
  /\ UNCHANGED <<nerVars, coreVars, uiShown, pageVars>>

\* summarizeText() on the summarizer's page alone, with a bounded number of
\* pending callbacks
SummarizeText ==
  /\ Len(timers) < MaxPending
  /\ SummarizeTextCall
  /\ UNCHANGED events

\* the user closes the alert, and summarizeText returns (line 354)
DismissAlert ==
  /\ alertOpen
  /\ alertOpen' = FALSE
  /\ UNCHANGED <<summarizationText, summaryRatio, ratioValue, loadingOverlay,
                 timers, summarizationResults, hasContent, result, summarized,
                 sentences, selected>>
  /\ UNCHANGED <<nerVars, laterVars>>

\* the setTimeout callback of summarizeText, lines 359-363
SummarizeTimeout ==
  /\ ~alertOpen
  /\ \E i \in DOMAIN timers :
       /\ timers[i].op = "summarize"
       /\ CanFire(timers, i)
       /\ LET t == timers[i].args[1]
              r == MockSummarizeText(t)
          IN /\ result' = r
             /\ summarized' = t
             /\ sentences' = Sentences(t)
             /\ selected' = Selected(Sentences(t))
             /\ summarizationResults' = SummarizationHtml(r)
       /\ timers' = WithoutTimer(timers, i)
  /\ hasContent' = TRUE
  /\ loadingOverlay' = FALSE
  /\ UNCHANGED <<summarizationText, summaryRatio, ratioValue, alertOpen>>
  /\ UNCHANGED <<nerVars, laterVars>>

NextSum ==
  \/ SetSummaryRatio
  \/ SummarizeText
  \/ DismissAlert
  \/ SummarizeTimeout

SpecSum == InitSum /\ [][NextSum]_vars

\* ------------------------------------------- NLPAssistant: the mock cores
\* Math.random() is drawn from a grid of tenths: the draw d stands for d / 10.
\* Scores are kept in hundredths and in thousandths, which is exact on the grid.

\* s.charAt(0).toUpperCase() + s.slice(1)
Capitalize(s) == IF s = <<>> THEN <<>> ELSE <<ToUpperCase(s[1])>> \o Tail(s)

\* s.includes(sub)
Includes(s, sub) ==
  \E i \in 0..(Len(s) - Len(sub)) : SubSeq(s, i + 1, i + Len(sub)) = sub

\* const categories of mockClassifyText
Categories ==
  << <<"t", "e", "c", "h", "n", "o", "l", "o", "g", "y">>,
     <<"b", "u", "s", "i", "n", "e", "s", "s">>,
     <<"s", "p", "o", "r", "t", "s">>,
     <<"h", "e", "a", "l", "t", "h">>,
     <<"e", "d", "u", "c", "a", "t", "i", "o", "n">>,
     <<"e", "n", "t", "e", "r", "t", "a", "i", "n", "m", "e", "n", "t">>,
     <<"n", "e", "w", "s">>,
     <<"p", "e", "r", "s", "o", "n", "a", "l">> >>

\* mockClassifyText(text), lines 256-267: draws[1] picks the category,
\* confidence = 0.6 + draws[2] * 0.4 in hundredths
MockClassifyText(t, draws) ==
  [category |-> Categories[((draws[1] * Len(Categories)) \div 10) + 1],
   confidence |-> 60 + 4 * draws[2],
   word_count |-> Len(Split(t, " ")),
   text_length |-> Len(t)]

\* displayClassificationResults, lines 269-295: confidence in tenths of a percent
ClassificationHtml(r) ==
  [shown |-> "classification",
   category |-> Capitalize(r.category),
   confidence |-> 10 * r.confidence,
   words |-> r.word_count,
   characters |-> r.text_length,
   description |-> r.category]

\* the options of #generation-select, which are the keys of const templates
GenerationTypes ==
  {<<"s", "t", "o", "r", "y">>, <<"e", "m", "a", "i", "l">>, <<"b", "l", "o", "g">>, <<"c", "o", "n", "t", "i", "n", "u", "a", "t", "i", "o", "n">>}

\* templates[type].split(' ').length and templates[type].length
TemplateCounts ==
  (<<"s", "t", "o", "r", "y">> :> [words |-> 40, chars |-> 239])
    @@ (<<"e", "m", "a", "i", "l">> :> [words |-> 44, chars |-> 280])
    @@ (<<"b", "l", "o", "g">> :> [words |-> 86, chars |-> 684])
    @@ (<<"c", "o", "n", "t", "i", "n", "u", "a", "t", "i", "o", "n">> :> [words |-> 33, chars |-> 260])

\* mockGenerateText(type), lines 311-326; the template text is named by its key
MockGenerateText(type) ==
  [generated_text |-> <<"templates", type>>,
   word_count |-> TemplateCounts[type].words,
   character_count |-> TemplateCounts[type].chars,
   type |-> type]

\* displayGenerationResults, lines 328-347
GenerationHtml(r) ==
  [shown |-> "generation",
   title |-> Capitalize(r.type),
   words |-> r.word_count,
   characters |-> r.character_count,
   text |-> r.generated_text,
   download |-> <<"g", "e", "n", "e", "r", "a", "t", "e", "d", "_">> \o r.type \o <<".", "t", "x", "t">>]

\* the threshold 0.1 of mockAnalyzeSentiment and displaySentimentResults, in
\* hundredths
Threshold == 10

\* mockAnalyzeSentiment(text), lines 427-445, scores in hundredths:
\* polarity = (draws[1] - 0.5) * 2, subjectivity = draws[2], and the emotions
\* in the order of the object literal
MockAnalyzeSentiment(t, draws) ==
  LET polarity == 20 * (draws[1] - 5) IN
    [sentiment |-> IF polarity > Threshold THEN <<"P", "o", "s", "i", "t", "i", "v", "e">>
                   ELSE IF polarity < -Threshold THEN <<"N", "e", "g", "a", "t", "i", "v", "e">> ELSE <<"N", "e", "u", "t", "r", "a", "l">>,
     polarity |-> polarity,
     confidence |-> IF polarity < 0 THEN -polarity ELSE polarity,
     subjectivity |-> 10 * draws[2],
     word_count |-> Len(Split(t, " ")),
     emotions |-> << <<<<"j", "o", "y">>, 5 * draws[3]>>, <<<<"s", "a", "d", "n", "e", "s", "s">>, 3 * draws[4]>>,
                     <<<<"a", "n", "g", "e", "r">>, 2 * draws[5]>>, <<<<"f", "e", "a", "r">>, draws[6]>> >>]

\* a filter that also keeps a score equal to the threshold
PassesThresholdOrEqual(entry) == entry[2] >= Threshold

\* the filter ([emotion, score]) => score > 0.1
PassesThreshold(entry) == entry[2] > Threshold

\* Object.entries(result.emotions).filter(...).map(...), lines 449-456: a card
\* holds the capitalized name and (score * 100).toFixed(1) in tenths of a percent
EmotionCards(emotions) ==
  LET kept == SelectSeq(emotions, PassesThreshold) IN
    [i \in DOMAIN kept |->
       [type |-> Capitalize(kept[i][1]), percent |-> 10 * kept[i][2]]]

\* displaySentimentResults, lines 447-486: polarity.toFixed(3) in thousandths,
\* the percentages in tenths of a percent
SentimentHtml(r) ==
  [shown |-> "sentiment",
   class |-> ToLowerCase(r.sentiment),
   sentiment |-> r.sentiment,
   polarity |-> 10 * r.polarity,
   confidence |-> 10 * r.confidence,
   subjectivity |-> 10 * r.subjectivity,
   cards |-> EmotionCards(r.emotions)]

\* the first two options of #target-lang with their texts, and their entries
\* in const translations
LangNames == [es |-> "Spanish", en |-> "English"]

Translations ==
  [es |-> "Hola, ¿cómo estás hoy? Espero que estés bien.",
   en |-> "Hello, how are you today? I hope you are doing well."]

\* mockTranslateText(text), lines 505-529: lang is the value of #target-lang
\* when the function runs; confidence 0.95 in hundredths
MockTranslateText(t, lang) ==
  [original_text |-> t,
   translated_text |-> IF lang \in DOMAIN Translations THEN Translations[lang]
                       ELSE "Translation would appear here",
   source_language |-> "English",
   target_language |-> LangNames[lang],
   confidence |-> 95]

\* displayTranslationResults, lines 531-558
TranslationHtml(r) ==
  [shown |-> "translation",
   translated |-> r.translated_text,
   from |-> r.source_language,
   to |-> r.target_language,
   confidence |-> 10 * r.confidence,
   original |-> r.original_text]

\* the fallback answer, kept as one token
DefaultAnswer ==
  <<"Based on the provided context, the answer would be found here.">>

\* mockAnswerQuestion(context, question), lines 579-592: confidence =
\* 0.75 + draws[1] * 0.2 in thousandths
MockAnswerQuestion(context, question, draws) ==
  LET sents == Sentences(context)
      q == ToLowerCase(question)
  IN [question |-> question,
      answer |-> IF sents # <<>> THEN sents[1] ELSE DefaultAnswer,
      confidence |-> 750 + 20 * draws[1],
      question_type |-> IF Includes(q, <<"w", "h", "a", "t">>) THEN <<"w", "h", "a", "t">>
                        ELSE IF Includes(q, <<"w", "h", "o">>) THEN <<"w", "h", "o">>
                        ELSE IF Includes(q, <<"w", "h", "e", "n">>) THEN <<"w", "h", "e", "n">> ELSE <<"g", "e", "n", "e", "r", "a", "l">>,
      context_length |-> Len(context)]

\* displayQAResults, lines 594-617
QAHtml(r) ==
  [shown |-> "qa",
   question |-> r.question,
   answer |-> r.answer,
   confidence |-> r.confidence,
   type |-> Capitalize(r.question_type),
   context_length |-> r.context_length]

\* const entities of mockExtractEntities, in the order of the object literal
NerDictionary ==
  << <<"PERSON", <<"John Smith", "Mary Johnson", "Dr. Williams">> >>,
     <<"ORGANIZATION", <<"Microsoft", "Google", "Apple Inc.">> >>,
     <<"LOCATION", <<"New York", "California", "London">> >>,
     <<"DATE", <<"2024", "January", "Monday">> >>,
     <<"MONEY", <<"$100", "$1,000", "€500">> >> >>

RECURSIVE FlatLength(_)
FlatLength(entries) ==
  IF entries = <<>> THEN 0 ELSE Len(Head(entries)[2]) + FlatLength(Tail(entries))

\* mockExtractEntities(text), lines 636-650
MockExtractEntities(t) ==
  [entities |-> NerDictionary,
   total_entities |-> FlatLength(NerDictionary),
   text_length |-> Len(t)]

HasEntities(entry) == Len(entry[2]) > 0

\* displayNERResults, lines 652-688
NERHtml(r) ==
  [shown |-> "ner",
   total |-> r.total_entities,
   types |-> Len(r.entities),
   text_length |-> r.text_length,
   cards |-> SelectSeq(r.entities, HasEntities)]

\* --------------------------------------------- NLPAssistant: the steps
\* a trackUsage that counts nothing
TrackUsageNothing(stats, toolName) == stats

\* trackUsage(toolName), lines 110-115, for the three names of usageStats and
\* for names that no object has
TrackUsage(stats, toolName) ==
  IF toolName \in DOMAIN stats THEN [stats EXCEPT ![toolName] = @ + 1] ELSE stats

\* the stat elements after trackUsage: updateUsageDisplay runs for a known name
TrackedDisplay(stats, display, toolName) ==
  IF toolName \in DOMAIN stats THEN UsageDisplay(TrackUsage(stats, toolName))
  ELSE display

\* what a user types into a text input: nothing, a space, a word
TypedValues == {<<>>, <<" ">>, <<"a">>}

\* A user event can happen: no alert is open.  The loading overlay covers the
\* page but takes no keyboard focus, so the controls stay usable while it is
\* shown.  The number of user events of a behaviour is bounded.
UserMay == ~alertOpen /\ events < MaxEvents

\* the user replaces the value of the text input f
TypeText(f, v) ==
  /\ UserMay
  /\ v # fields[f]
  /\ fields' = [fields EXCEPT ![f] = v]
  /\ events' = events + 1
  /\ UNCHANGED <<summarizationText, summaryRatio, ratioValue, alertOpen,
                 loadingOverlay, timers, summarizationResults, hasContent,
                 result, summarized, sentences, selected, targetLang,
                 generationSelect, generationForm, results,
                 resultsHasContent, usageStats, statDisplay, currentTool,
                 activeIds, toolSelect, shownFrom, thrown, invocations>>
  /\ UNCHANGED <<nerVars, coreVars, pageVars>>

\* the user selects another option of #target-lang
SelectTargetLang(lang) ==
  /\ UserMay
  /\ lang # targetLang
  /\ targetLang' = lang
  /\ events' = events + 1
  /\ UNCHANGED <<summarizationText, summaryRatio, ratioValue, alertOpen,
                 loadingOverlay, timers, summarizationResults, hasContent,
                 result, summarized, sentences, selected, fields,
                 generationSelect, generationForm, results,
                 resultsHasContent, usageStats, statDisplay, currentTool,
                 activeIds, toolSelect, shownFrom, thrown, invocations>>
  /\ UNCHANGED <<nerVars, coreVars, pageVars>>

\* the user selects another option of #generation-select: onchange calls
\* updateGenerationForm (lines 146-236), which rewrites #generation-form
SelectGeneration(type) ==
  /\ UserMay
  /\ type # generationSelect
  /\ generationSelect' = type
  /\ generationForm' = type
  /\ events' = events + 1
  /\ UNCHANGED <<summarizationText, summaryRatio, ratioValue, alertOpen,
                 loadingOverlay, timers, summarizationResults, hasContent,
                 result, summarized, sentences, selected, fields, targetLang,
                 results, resultsHasContent, usageStats, statDisplay,
                 currentTool, activeIds, toolSelect, shownFrom, thrown,
                 invocations>>
  /\ UNCHANGED <<nerVars, coreVars, pageVars>>

\* switchTool(tool), lines 78-92.  A value that is no option leaves the select
\* without a selected option.  When no element has the id, the sections have
\* lost the class before getElementById(tool).classList throws a TypeError,
\* and line 91 is not reached.
SwitchTool(tool) ==
  /\ UserMay
  /\ events' = events + 1
  /\ toolSelect' = IF tool \in Sections THEN tool ELSE ""
  /\ IF tool \in ElementIds
       THEN /\ activeIds' = (activeIds \ Sections) \cup {tool}
            /\ currentTool' = tool
            /\ UNCHANGED thrown
       ELSE /\ activeIds' = activeIds \ Sections
            /\ thrown' = thrown + 1
            /\ UNCHANGED currentTool
  /\ UNCHANGED <<summarizationText, summaryRatio, ratioValue, alertOpen,
                 loadingOverlay, timers, summarizationResults, hasContent,
                 result, summarized, sentences, selected, fields, targetLang,
                 generationSelect, generationForm, results,
                 resultsHasContent, usageStats, statDisplay, shownFrom,
                 invocations>>
  /\ UNCHANGED <<nerVars, coreVars, pageVars>>

\* a call of trackUsage with a name that usageStats does not have
TrackUsageUnknown(toolName) ==
  /\ UserMay
  /\ events' = events + 1
  /\ usageStats' = TrackUsage(usageStats, toolName)
  /\ statDisplay' = TrackedDisplay(usageStats, statDisplay, toolName)
  /\ UNCHANGED <<summarizationText, summaryRatio, ratioValue, alertOpen,
                 loadingOverlay, timers, summarizationResults, hasContent,
                 result, summarized, sentences, selected, fields, targetLang,
                 generationSelect, generationForm, results,
                 resultsHasContent, currentTool, activeIds, toolSelect,
                 shownFrom, thrown, invocations>>
  /\ UNCHANGED <<nerVars, coreVars, pageVars>>

\* summarizeText() as one of the user events of the whole page
UiSummarizeText ==
  /\ UserMay
  /\ SummarizeTextCall
  /\ events' = events + 1

\* classifyText(), lines 239-254 up to the return
ClassifyText ==
  /\ UserMay
  /\ events' = events + 1
  /\ LET t == Trim(fields["classification-text"]) IN
       IF t = <<>>
         THEN /\ alertOpen' = TRUE
              /\ UNCHANGED <<loadingOverlay, timers, usageStats, statDisplay, invocations>>
         ELSE /\ loadingOverlay' = TRUE
              /\ usageStats' = TrackUsage(usageStats, "Text Classification")
              /\ statDisplay' = TrackedDisplay(usageStats, statDisplay, "Text Classification")
              /\ invocations' = [invocations EXCEPT !.classify = @ + 1]
              /\ timers' = Append(timers, Timer("classify", <<t>>, <<>>))
              /\ UNCHANGED alertOpen
  /\ UNCHANGED <<summarizationText, summaryRatio, ratioValue,
                 summarizationResults, hasContent, result, summarized,
                 sentences, selected, fields, targetLang, generationSelect,
                 generationForm, results, resultsHasContent, currentTool,
                 activeIds, toolSelect, shownFrom, thrown>>
  /\ UNCHANGED <<nerVars, coreVars, pageVars>>

\* the setTimeout callback of classifyText, lines 249-253
ClassifyTimeout(draws) ==
  /\ ~alertOpen
  /\ \E i \in DOMAIN timers :
       /\ timers[i].op = "classify"
       /\ CanFire(timers, i)
       /\ LET r == MockClassifyText(timers[i].args[1], draws)
          IN /\ results' = [results EXCEPT !["classification-results"] = ClassificationHtml(r)]
             /\ shownFrom' = [shownFrom EXCEPT !["classification-results"] =
                  [args |-> timers[i].args, dom |-> timers[i].dom,
                   result |-> r]]
       /\ timers' = WithoutTimer(timers, i)
  /\ resultsHasContent' = resultsHasContent \cup {"classification-results"}
  /\ loadingOverlay' = FALSE
  /\ UNCHANGED <<summarizationText, summaryRatio, ratioValue, alertOpen,
                 summarizationResults, hasContent, result, summarized,
                 sentences, selected, fields, targetLang, generationSelect,
                 generationForm, usageStats, statDisplay, currentTool,
                 activeIds, toolSelect, thrown, events, invocations>>
  /\ UNCHANGED <<nerVars, coreVars, pageVars>>

\* generateText(), lines 298-309 up to the return
GenerateText ==
  /\ UserMay
  /\ events' = events + 1
  /\ loadingOverlay' = TRUE
  /\ usageStats' = TrackUsage(usageStats, "Text Generation")
  /\ statDisplay' = TrackedDisplay(usageStats, statDisplay, "Text Generation")
  /\ invocations' = [invocations EXCEPT !.generate = @ + 1]
  /\ timers' = Append(timers, Timer("generate", <<generationSelect>>, <<>>))
  /\ UNCHANGED <<summarizationText, summaryRatio, ratioValue, alertOpen,
                 summarizationResults, hasContent, result, summarized,
                 sentences, selected, fields, targetLang, generationSelect,
                 generationForm, results, resultsHasContent, currentTool,
                 activeIds, toolSelect, shownFrom, thrown>>
  /\ UNCHANGED <<nerVars, coreVars, pageVars>>

\* the setTimeout callback of generateText, lines 304-308
GenerateTimeout ==
  /\ ~alertOpen
  /\ \E i \in DOMAIN timers :
       /\ timers[i].op = "generate"
       /\ CanFire(timers, i)
       /\ LET r == MockGenerateText(timers[i].args[1])
          IN /\ results' = [results EXCEPT !["generation-results"] = GenerationHtml(r)]
             /\ shownFrom' = [shownFrom EXCEPT !["generation-results"] =
                  [args |-> timers[i].args, dom |-> timers[i].dom,
                   result |-> r]]
       /\ timers' = WithoutTimer(timers, i)
  /\ resultsHasContent' = resultsHasContent \cup {"generation-results"}
  /\ loadingOverlay' = FALSE
  /\ UNCHANGED <<summarizationText, summaryRatio, ratioValue, alertOpen,
                 summarizationResults, hasContent, result, summarized,
                 sentences, selected, fields, targetLang, generationSelect,
                 generationForm, usageStats, statDisplay, currentTool,
                 activeIds, toolSelect, thrown, events, invocations>>
  /\ UNCHANGED <<nerVars, coreVars, pageVars>>

\* analyzeSentiment(), lines 410-425 up to the return
AnalyzeSentiment ==
  /\ UserMay
  /\ events' = events + 1
  /\ LET t == Trim(fields["sentiment-text"]) IN
       IF t = <<>>
         THEN /\ alertOpen' = TRUE
              /\ UNCHANGED <<loadingOverlay, timers, usageStats, statDisplay, invocations>>
         ELSE /\ loadingOverlay' = TRUE
              /\ usageStats' = TrackUsage(usageStats, "Sentiment Analysis")
              /\ statDisplay' = TrackedDisplay(usageStats, statDisplay, "Sentiment Analysis")
              /\ invocations' = [invocations EXCEPT !.sentiment = @ + 1]
              /\ timers' = Append(timers, Timer("sentiment", <<t>>, <<>>))
              /\ UNCHANGED alertOpen
  /\ UNCHANGED <<summarizationText, summaryRatio, ratioValue,
                 summarizationResults, hasContent, result, summarized,
                 sentences, selected, fields, targetLang, generationSelect,
                 generationForm, results, resultsHasContent, currentTool,
                 activeIds, toolSelect, shownFrom, thrown>>
  /\ UNCHANGED <<nerVars, coreVars, pageVars>>

\* the setTimeout callback of analyzeSentiment, lines 420-424
SentimentTimeout(draws) ==
  /\ ~alertOpen
  /\ \E i \in DOMAIN timers :
       /\ timers[i].op = "sentiment"
       /\ CanFire(timers, i)
       /\ LET r == MockAnalyzeSentiment(timers[i].args[1], draws)
          IN /\ results' = [results EXCEPT !["sentiment-results"] = SentimentHtml(r)]
             /\ shownFrom' = [shownFrom EXCEPT !["sentiment-results"] =
                  [args |-> timers[i].args, dom |-> timers[i].dom,
                   result |-> r]]
       /\ timers' = WithoutTimer(timers, i)
  /\ resultsHasContent' = resultsHasContent \cup {"sentiment-results"}
  /\ loadingOverlay' = FALSE
  /\ UNCHANGED <<summarizationText, summaryRatio, ratioValue, alertOpen,
                 summarizationResults, hasContent, result, summarized,
                 sentences, selected, fields, targetLang, generationSelect,
                 generationForm, usageStats, statDisplay, currentTool,
                 activeIds, toolSelect, thrown, events, invocations>>
  /\ UNCHANGED <<nerVars, coreVars, pageVars>>

\* translateText(), lines 489-503 up to the return: the text is passed on
\* untrimmed
TranslateText ==
  /\ UserMay
  /\ events' = events + 1
  /\ LET t == fields["translation-text"] IN
       IF Trim(t) = <<>>
         THEN /\ alertOpen' = TRUE
              /\ UNCHANGED <<loadingOverlay, timers>>
         ELSE /\ loadingOverlay' = TRUE
              /\ timers' = Append(timers, Timer("translate", <<t>>, <<targetLang>>))
              /\ UNCHANGED alertOpen
  /\ UNCHANGED <<summarizationText, summaryRatio, ratioValue,
                 summarizationResults, hasContent, result, summarized,
                 sentences, selected, fields, targetLang, generationSelect,
                 generationForm, results, resultsHasContent, usageStats,
                 statDisplay, currentTool, activeIds, toolSelect, shownFrom,
                 thrown, invocations>>
  /\ UNCHANGED <<nerVars, coreVars, pageVars>>

\* the setTimeout callback of translateText, lines 498-502: mockTranslateText
\* reads #target-lang when it runs
TranslateTimeout ==
  /\ ~alertOpen
  /\ \E i \in DOMAIN timers :
       /\ timers[i].op = "translate"
       /\ CanFire(timers, i)
       /\ LET r == MockTranslateText(timers[i].args[1], targetLang)
          IN /\ results' = [results EXCEPT !["translation-results"] = TranslationHtml(r)]
             /\ shownFrom' = [shownFrom EXCEPT !["translation-results"] =
                  [args |-> timers[i].args, dom |-> timers[i].dom,
                   result |-> r]]
       /\ timers' = WithoutTimer(timers, i)
  /\ resultsHasContent' = resultsHasContent \cup {"translation-results"}
  /\ loadingOverlay' = FALSE
  /\ UNCHANGED <<summarizationText, summaryRatio, ratioValue, alertOpen,
                 summarizationResults, hasContent, result, summarized,
                 sentences, selected, fields, targetLang, generationSelect,
                 generationForm, usageStats, statDisplay, currentTool,
                 activeIds, toolSelect, thrown, events, invocations>>
  /\ UNCHANGED <<nerVars, coreVars, pageVars>>

\* answerQuestion(), lines 561-577 up to the return
AnswerQuestion ==
  /\ UserMay
  /\ events' = events + 1
  /\ LET context == fields["qa-context"]
         question == fields["qa-question"] IN
       IF Trim(context) = <<>> \/ Trim(question) = <<>>
         THEN /\ alertOpen' = TRUE
              /\ UNCHANGED <<loadingOverlay, timers>>
         ELSE /\ loadingOverlay' = TRUE
              /\ timers' = Append(timers, Timer("answer", <<context, question>>, <<>>))
              /\ UNCHANGED alertOpen
  /\ UNCHANGED <<summarizationText, summaryRatio, ratioValue,
                 summarizationResults, hasContent, result, summarized,
                 sentences, selected, fields, targetLang, generationSelect,
                 generationForm, results, resultsHasContent, usageStats,
                 statDisplay, currentTool, activeIds, toolSelect, shownFrom,
                 thrown, invocations>>
  /\ UNCHANGED <<nerVars, coreVars, pageVars>>

\* the setTimeout callback of answerQuestion, lines 572-576
AnswerTimeout(draws) ==
  /\ ~alertOpen
  /\ \E i \in DOMAIN timers :
       /\ timers[i].op = "answer"
       /\ CanFire(timers, i)
       /\ LET r == MockAnswerQuestion(timers[i].args[1], timers[i].args[2], draws)
          IN /\ results' = [results EXCEPT !["qa-results"] = QAHtml(r)]
             /\ shownFrom' = [shownFrom EXCEPT !["qa-results"] =
                  [args |-> timers[i].args, dom |-> timers[i].dom,
                   result |-> r]]
       /\ timers' = WithoutTimer(timers, i)
  /\ resultsHasContent' = resultsHasContent \cup {"qa-results"}
  /\ loadingOverlay' = FALSE
  /\ UNCHANGED <<summarizationText, summaryRatio, ratioValue, alertOpen,
                 summarizationResults, hasContent, result, summarized,
                 sentences, selected, fields, targetLang, generationSelect,
                 generationForm, usageStats, statDisplay, currentTool,
                 activeIds, toolSelect, thrown, events, invocations>>
  /\ UNCHANGED <<nerVars, coreVars, pageVars>>

\* NLPAssistant.extractEntities(), lines 620-634 up to the return
AssistantExtractEntities ==
  /\ UserMay
  /\ events' = events + 1
  /\ LET t == fields["ner-text"] IN
       IF Trim(t) = <<>>
         THEN /\ alertOpen' = TRUE
              /\ UNCHANGED <<loadingOverlay, timers>>
         ELSE /\ loadingOverlay' = TRUE
              /\ timers' = Append(timers, Timer("ner", <<t>>, <<>>))
              /\ UNCHANGED alertOpen
  /\ UNCHANGED <<summarizationText, summaryRatio, ratioValue,
                 summarizationResults, hasContent, result, summarized,
                 sentences, selected, fields, targetLang, generationSelect,
                 generationForm, results, resultsHasContent, usageStats,
                 statDisplay, currentTool, activeIds, toolSelect, shownFrom,
                 thrown, invocations>>
  /\ UNCHANGED <<nerVars, coreVars, pageVars>>

\* the setTimeout callback of extractEntities, lines 629-633
NerTimeout ==
  /\ ~alertOpen
  /\ \E i \in DOMAIN timers :
       /\ timers[i].op = "ner"
       /\ CanFire(timers, i)
       /\ LET r == MockExtractEntities(timers[i].args[1])
          IN /\ results' = [results EXCEPT !["ner-results"] = NERHtml(r)]
             /\ shownFrom' = [shownFrom EXCEPT !["ner-results"] =
                  [args |-> timers[i].args, dom |-> timers[i].dom,
                   result |-> r]]
       /\ timers' = WithoutTimer(timers, i)
  /\ resultsHasContent' = resultsHasContent \cup {"ner-results"}
  /\ loadingOverlay' = FALSE
  /\ UNCHANGED <<summarizationText, summaryRatio, ratioValue, alertOpen,
                 summarizationResults, hasContent, result, summarized,
                 sentences, selected, fields, targetLang, generationSelect,
                 generationForm, usageStats, statDisplay, currentTool,
                 activeIds, toolSelect, thrown, events, invocations>>
  /\ UNCHANGED <<nerVars, coreVars, pageVars>>

\* ------------------------------------------ NLPAssistant: the whole page
\* the random draws of a callback in the exploration of the whole page: every
\* Math.random() of one callback returns the same value, low or high
UiDraws == {[i \in 1..6 |-> r] : r \in {0, 9}}

\* the values switchTool is called with: an option of the select, the id of
\* an element that is no section, and a value that names no element
UiToolIds == {"ner", "loading-overlay", "no-such-section"}

\* names trackUsage is called with that usageStats does not have
UnknownToolNames == {"Text Summarization", "Language Translation"}

\* The page as loaded and then filled in: every text input holds the same
\* typed value.
InitUI ==
  /\ nerText = <<>>
  /\ NerLoaded
  /\ SumLoaded
  /\ CoreIdle
  /\ PageLoaded
  /\ UiConstructed
  /\ \E v \in TypedValues :
       /\ fields = [f \in FieldIds |-> v]
       /\ summarizationText = v

NextUI ==
  \/ \E f \in FieldIds, v \in TypedValues : TypeText(f, v)
  \/ \E lang \in DOMAIN LangNames : SelectTargetLang(lang)
  \/ \E type \in GenerationTypes : SelectGeneration(type)
  \/ \E tool \in UiToolIds : SwitchTool(tool)
  \/ \E toolName \in UnknownToolNames : TrackUsageUnknown(toolName)
  \/ ClassifyText
  \/ \E draws \in UiDraws : ClassifyTimeout(draws)
  \/ GenerateText
  \/ GenerateTimeout
  \/ UiSummarizeText
  \/ SummarizeTimeout
  \/ AnalyzeSentiment
  \/ \E draws \in UiDraws : SentimentTimeout(draws)
  \/ TranslateText
  \/ TranslateTimeout
  \/ AnswerQuestion
  \/ \E draws \in UiDraws : AnswerTimeout(draws)
  \/ AssistantExtractEntities
  \/ NerTimeout
  \/ DismissAlert

SpecUI == InitUI /\ [][NextUI]_vars

\* ------------------------------------ NLPAssistant: the sentiment report
\* The draws of one mockAnalyzeSentiment call (polarity, subjectivity, joy,
\* sadness, anger, fear), from grids that put scores below, at and above the
\* threshold: joy 0, 0.1, 0.45; sadness 0, 0.27; anger 0.1, 0.18; fear 0, 0.09.
SentimentDraws ==
  {<<p, sub, joy, sadness, anger, fear>> :
     p \in {0, 5, 9}, sub \in {0, 9}, joy \in {0, 2, 9}, sadness \in {0, 9},
     anger \in {5, 9}, fear \in {0, 9}}

\* the page with a text typed into #sentiment-text
InitSentiment ==
  /\ nerText = <<>>
  /\ NerLoaded
  /\ summarizationText = <<>>
  /\ SumLoaded
  /\ CoreIdle
  /\ PageLoaded
  /\ UiConstructed
  /\ \E v \in TypedValues \ {<<>>, <<" ">>} :
       fields = [f \in FieldIds |-> IF f = "sentiment-text" THEN v ELSE <<>>]

NextSentiment ==
  \/ AnalyzeSentiment
  \/ \E draws \in SentimentDraws : SentimentTimeout(draws)

SpecSentiment == InitSentiment /\ [][NextSentiment]_vars

\* ------------------------------------------- script.js: the page's steps
\* showError(container, message), lines 371-378: the message replaces the
\* content of the container
ShowError(message) == [shown |-> "error", message |-> message]

\* the user replaces the value of #nerText
TypeNerText(v) ==
  /\ events < MaxEvents
  /\ v # nerText
  /\ nerText' = v
  /\ events' = events + 1
  /\ UNCHANGED <<pc, text, entities, highlightedText, idx, entityCounts, input,
                 order, log, kinds>>
  /\ UNCHANGED <<sumVars, coreVars, uiShown, pageVars>>

\* extractEntities() of script.js, lines 180-228, as one step: the guard with
\* showError, the call of nlp.extractEntities, the warning or the two result
\* cards (the entity list is built before highlightEntities sorts the array),
\* and createEntityChart; ents is what nlp.extractEntities returns for a text
\* that passes the guard
ScriptExtractEntities(ents) ==
  /\ events < MaxEvents
  /\ events' = events + 1
  /\ LET t == Trim(nerText) IN
       IF t = <<>>
         THEN /\ nerResults' = ShowError("Please enter some text to analyze.")
              /\ UNCHANGED entityChart
         ELSE IF Len(ents) = 0
                THEN /\ nerResults' = [shown |-> "warning"]
                     /\ UNCHANGED entityChart
                ELSE /\ nerResults' = [shown |-> "entities",
                                       entityList |-> ents,
                                       highlighted |-> HighlightEntities(t, ents)]
                     /\ entityChart' = EntityCounts(ArraySort(t, ents))
  /\ UNCHANGED <<chatInput, chatMessages, chatHistory>>
  /\ UNCHANGED <<nerVars, sumVars, coreVars, uiShown>>

\* what the user types into #chatInput
ChatInputs == {<<>>, <<" ">>, <<"a">>, <<" ", "a", " ">>, <<"b">>}

\* What nlp.generateChatResponse(message) returns: a response and an analysis
\* with a sentiment and a list of entities, or no analysis.
ChatResults ==
  { [response |-> <<"r">>,
     analysis |-> <<[sentiment |-> "positive", entities |-> 0]>>],
    [response |-> <<"r">>,
     analysis |-> <<[sentiment |-> "negative", entities |-> 1]>>],
    [response |-> <<"r", "r">>, analysis |-> <<>>] }

\* an addChatMessage that appends nothing
AddChatMessageNothing(container, message, sender, analysis) == container

\* addChatMessage(message, sender, analysis), lines 62-87: one message element
\* is appended; the analysis line is part of a bot message that has one
AddChatMessage(container, message, sender, analysis) ==
  Append(container,
         Message(message, sender, IF sender = "bot" THEN analysis ELSE <<>>))

\* the user replaces the value of #chatInput
TypeChatInput(v) ==
  /\ events < MaxEvents
  /\ v # chatInput
  /\ chatInput' = v
  /\ events' = events + 1
  /\ UNCHANGED <<nerResults, entityChart, chatMessages, chatHistory>>
  /\ UNCHANGED <<nerVars, sumVars, coreVars, uiShown>>

\* sendMessage(), lines 42-60
SendMessage ==
  /\ events < MaxEvents
  /\ events' = events + 1
  /\ LET message == Trim(chatInput) IN
       IF message = <<>>
         THEN UNCHANGED <<chatInput, chatMessages, chatHistory>>
         ELSE \E r \in ChatResults :
                /\ chatMessages' =
                     AddChatMessage(
                       AddChatMessage(chatMessages, message, "user", <<>>),
                       r.response, "bot", r.analysis)
                /\ chatInput' = <<>>
                /\ chatHistory' =
                     Append(chatHistory,
                            [user |-> message, bot |-> r.response,
                             analysis |-> r.analysis])
  /\ UNCHANGED <<nerResults, entityChart>>
  /\ UNCHANGED <<nerVars, sumVars, coreVars, uiShown>>

\* clearChat(), lines 89-99
ClearChat ==
  /\ events < MaxEvents
  /\ events' = events + 1
  /\ chatMessages' = <<Greeting>>
  /\ chatHistory' = <<>>
  /\ UNCHANGED <<nerResults, entityChart, chatInput>>
  /\ UNCHANGED <<nerVars, sumVars, coreVars, uiShown>>

\* the page as loaded, with something typed into #chatInput
InitChat ==
  /\ nerText = <<>>
  /\ NerLoaded
  /\ summarizationText = <<>>
  /\ SumLoaded
  /\ CoreIdle
  /\ UiLoaded
  /\ PageShown
  /\ chatInput \in ChatInputs

NextChat ==
  \/ \E v \in ChatInputs : TypeChatInput(v)
  \/ SendMessage
  \/ ClearChat

SpecChat == InitChat /\ [][NextChat]_vars

\* ------------------------------------------ the guards of the operations
\* the user replaces the value of #summarization-text
TypeSummarizationText(v) ==
  /\ UserMay
  /\ v # summarizationText
  /\ summarizationText' = v
  /\ events' = events + 1
  /\ UNCHANGED <<summaryRatio, ratioValue, alertOpen, loadingOverlay, timers,
                 summarizationResults, hasContent, result, summarized,
                 sentences, selected>>
  /\ UNCHANGED <<nerVars, coreVars, uiShown, pageVars>>

\* an empty and a whitespace-only value
BlankValues == {<<>>, <<" ">>}

\* what nlp.extractEntities returns on the page of script.js: no entity, one
\* entity, two entities of one label
PageEntityLists ==
  LET org(literal) == [text |-> literal, label |-> <<"O", "R", "G">>,
                       description |-> <<"d">>]
  IN {<<>>, <<org(<<"a">>)>>, <<org(<<"a">>), org(<<"A">>)>>}

\* Both pages as loaded, with a word in every text input: the operations
\* that take a text, the callbacks of their timers, and a user who blanks the
\* inputs.
InitGuard ==
  /\ nerText = <<"a">>
  /\ NerLoaded
  /\ summarizationText = <<"a">>
  /\ SumLoaded
  /\ CoreIdle
  /\ PageLoaded
  /\ UiConstructed
  /\ fields = [f \in FieldIds |-> <<"a">>]

NextGuard ==
  \/ \E f \in FieldIds, v \in BlankValues : TypeText(f, v)
  \/ \E v \in BlankValues : TypeSummarizationText(v)
  \/ \E v \in BlankValues : TypeNerText(v)
  \/ ClassifyText
  \/ \E draws \in UiDraws : ClassifyTimeout(draws)
  \/ UiSummarizeText
  \/ SummarizeTimeout
  \/ AnalyzeSentiment
  \/ \E draws \in UiDraws : SentimentTimeout(draws)
  \/ TranslateText
  \/ TranslateTimeout
  \/ AnswerQuestion
  \/ \E draws \in UiDraws : AnswerTimeout(draws)
  \/ AssistantExtractEntities
  \/ NerTimeout
  \/ DismissAlert
  \/ \E ents \in PageEntityLists : ScriptExtractEntities(ents)

SpecGuard == InitGuard /\ [][NextGuard]_vars

\* ------------------------------------- the core functions on their own
\* new RegExp(source) throws a SyntaxError for a source that is no pattern.
\* The scan reads the source from its k-th character: prev tells whether a
\* quantifier may follow ("atom"), has just been read ("quant") or may not
\* follow ("none": the start, an assertion, an alternation bar, an opening
\* parenthesis); depth counts the open parentheses.
RECURSIVE SyntaxErrorFrom(_, _, _, _)
SyntaxErrorFrom(p, k, prev, depth) ==
  IF k > Len(p) THEN depth > 0
  ELSE LET c == p[k] IN
    CASE c = "\\" ->
           IF k = Len(p) THEN TRUE
           ELSE SyntaxErrorFrom(p, k + 2,
                  IF p[k + 1] \in {"b", "B"} THEN "none" ELSE "atom", depth)
      [] c \in {"*", "+"} ->
           IF prev = "atom" THEN SyntaxErrorFrom(p, k + 1, "quant", depth) ELSE TRUE
      [] c = "?" ->
           IF prev \in {"atom", "quant"}
             THEN SyntaxErrorFrom(p, k + 1, "none", depth) ELSE TRUE
      [] c = "(" -> SyntaxErrorFrom(p, k + 1, "none", depth + 1)
      [] c = ")" ->
           IF depth = 0 THEN TRUE ELSE SyntaxErrorFrom(p, k + 1, "atom", depth - 1)
      [] c = "[" ->
           LET close == {j \in (k + 1)..Len(p) : p[j] = "]" /\ p[j - 1] # "\\"} IN
             IF close = {} THEN TRUE
             ELSE SyntaxErrorFrom(p, (CHOOSE j \in close : \A i \in close : j <= i) + 1,
                                  "atom", depth)
      [] c \in {"^", "$", "|"} -> SyntaxErrorFrom(p, k + 1, "none", depth)
      [] OTHER -> SyntaxErrorFrom(p, k + 1, "atom", depth)

PatternSyntaxError(p) == SyntaxErrorFrom(p, 1, "none", 0)

\* the forEach of highlightEntities stops with a SyntaxError at the first
\* entity whose RegExp cannot be built
HighlightThrows(ents) ==
  \E k \in DOMAIN ents : PatternSyntaxError(PatternSource(ents[k].text))

\* span records with string fields: the empty literal, literals made of one
\* metacharacter, a word
CoreRecords ==
  { [text |-> lit, label |-> <<"X">>, description |-> <<"d">>] :
      lit \in {<<>>, <<"(">>, <<"*">>, <<"[">>, <<"\\">>, <<"a">>} }

CoreSpanLists == UNION {[1..n -> CoreRecords] : n \in 0..MaxCoreSpans}

\* the texts of the highlighter, and texts with a parenthesis and with periods
CoreTexts ==
  Texts \cup {<<"(">>, <<"a", "(", "a">>, <<".">>, <<"a", ".", " ", "a">>}

InitCore ==
  /\ nerText = <<>>
  /\ NerLoaded
  /\ summarizationText = <<>>
  /\ SumLoaded
  /\ UiLoaded
  /\ PageLoaded
  /\ coreText \in CoreTexts
  /\ coreSpans \in CoreSpanLists
  /\ corePc = "ready"
  /\ coreOut = <<>>
  /\ coreResult = NoResult
  /\ coreThrew = FALSE

\* highlightEntities(coreText, coreSpans), script.js lines 230-244
CallHighlightEntities ==
  /\ corePc = "ready"
  /\ corePc' = "highlighted"
  /\ coreSpans' = ArraySort(coreText, coreSpans)
  /\ IF HighlightThrows(coreSpans)
       THEN coreThrew' = TRUE /\ UNCHANGED coreOut
       ELSE coreOut' = HighlightEntities(coreText, coreSpans) /\ UNCHANGED coreThrew
  /\ UNCHANGED <<coreText, coreResult>>
  /\ UNCHANGED <<nerVars, sumVars, uiVars, pageVars>>

\* mockSummarizeText(coreText), part_000 lines 366-379: no step of it throws
\* for a string
CallMockSummarizeText ==
  /\ corePc = "highlighted"
  /\ corePc' = "summarized"
  /\ coreResult' = MockSummarizeText(coreText)
  /\ UNCHANGED <<coreText, coreSpans, coreOut, coreThrew>>
  /\ UNCHANGED <<nerVars, sumVars, uiVars, pageVars>>

NextCore ==
  \/ CallHighlightEntities
  \/ CallMockSummarizeText

SpecCore == InitCore /\ [][NextCore]_vars

\* ------------------------------------------------------------ properties
\* highlightEntities has returned
Returned == pc \in {"chart", "shown"}

\* the characters of s whose kind is not drop, in order
DropKind(s, ks, drop) ==
  LET kept == SelectSeq([i \in DOMAIN s |-> <<s[i], ks[i]>>], LAMBDA x : x[2] # drop)
  IN [i \in DOMAIN kept |-> kept[i][1]]

\* the output with the inserted wrapper tags removed
WithoutTags == DropKind(highlightedText, kinds, "M")

EqualIgnoreCase(a, b) ==
  /\ Len(a) = Len(b)
  /\ \A i \in DOMAIN a : ToUpperCase(a[i]) = ToUpperCase(b[i])

\* a non-word character or a string edge before offset p of t
EdgeBefore(t, p) == p = 0 \/ ~IsWordChar(t[p])

\* a non-word character or a string edge at offset p of t
EdgeAfter(t, p) == p = Len(t) \/ ~IsWordChar(t[p + 1])

\* the offsets of t where lit occurs ignoring case, bounded on both sides by
\* a non-word character or a string edge
BoundedOccurrences(t, lit) ==
  {p \in 0..(Len(t) - Len(lit)) :
     /\ EqualIgnoreCase(SubSeq(t, p + 1, p + Len(lit)), lit)
     /\ EdgeBefore(t, p)
     /\ EdgeAfter(t, p + Len(lit))}

\* the offset of the last occurrence of lit in t, -1 when there is none
LastOccurrence(t, lit) ==
  LET S == {p \in 0..(Len(t) - Len(lit)) : SubSeq(t, p + 1, p + Len(lit)) = lit}
  IN IF S = {} THEN -1 ELSE CHOOSE p \in S : \A q \in S : q <= p

IsPrefixAt(s, k, w) == k + Len(w) - 1 <= Len(s) /\ SubSeq(s, k, k + Len(w) - 1) = w

OpenTag == <<"<", "s", "p", "a", "n">>

CloseTag == <<"<", "/", "s", "p", "a", "n">>

\* a span element is opened in s inside an open span element
HasNestedWrapper(s) ==
  LET opens == {k \in DOMAIN s : IsPrefixAt(s, k, OpenTag)}
      closes == {k \in DOMAIN s : IsPrefixAt(s, k, CloseTag)}
  IN \E k \in opens :
       Cardinality({o \in opens : o < k}) > Cardinality({c \in closes : c < k})

\* the number of span elements opened in s
CountWrappers(s) == Cardinality({k \in DOMAIN s : IsPrefixAt(s, k, OpenTag)})

\* the iteration that processed the k-th span of the input
IterationOf(k) == CHOOSE j \in DOMAIN order : order[j] = k

RemoveAt(seq, k) == SubSeq(seq, 1, k - 1) \o SubSeq(seq, k + 1, Len(seq))

RECURSIVE SumMatches(_, _)
SumMatches(label, k) ==
  IF k > Len(log) THEN 0
  ELSE (IF entities[k].label = label THEN Len(log[k].ms) ELSE 0)
         + SumMatches(label, k + 1)

AllLabels == {e.label : e \in EntityRecords}

CountOf(label) == IF label \in DOMAIN entityCounts THEN entityCounts[label] ELSE 0

\* C1: Reconstruction: when highlightEntities has returned, the output with
\* the inserted wrapper tags removed is the text, character for character,
\* letter case included.
C1_Reconstruction == Returned => WithoutTags = text

\* C2: No overlap, no double wrap: in the output of highlightEntities no
\* wrapper lies inside another wrapper.
C2_NoNestedWrapper == Returned => ~HasNestedWrapper(highlightedText)

\* C3: Safe markup: no replacement of highlightEntities matches characters
\* of the markup of an earlier wrapper.
C3_MarkupNeverMatched ==
  \A k \in DOMAIN log : \A j \in DOMAIN log[k].ms :
    \A i \in (log[k].ms[j].start + 1)..log[k].ms[j].end : log[k].kinds[i] # "M"

\* C4: Whole-word matching, soundness: every occurrence highlightEntities
\* wraps equals the literal ignoring case and has a non-word character or a
\* string edge immediately before and after it.
C4_WrappedOnlyIfBounded ==
  \A k \in DOMAIN log : \A j \in DOMAIN log[k].ms :
    LET m == log[k].ms[j] IN
      /\ EqualIgnoreCase(SubSeq(log[k].src, m.start + 1, m.end), entities[k].text)
      /\ EdgeBefore(log[k].src, m.start)
      /\ EdgeAfter(log[k].src, m.end)

\* C5: Whole-word matching, completeness: for a single span whose literal
\* begins or ends with a non-word character, every occurrence in the text
\* bounded by non-word characters or string edges is wrapped.
C5_NonWordEdgedLiteralWrapped ==
  (/\ Returned
   /\ Len(input) = 1
   /\ (~IsWordChar(Head(input[1].text))
         \/ ~IsWordChar(input[1].text[Len(input[1].text)])))
  => \A p \in BoundedOccurrences(text, input[1].text) :
       \E j \in DOMAIN log[1].ms :
         /\ log[1].ms[j].start = p
         /\ log[1].ms[j].end = p + Len(input[1].text)

\* C6: Literal treatment of metacharacters: every match is the literal's
\* exact character sequence ignoring case, and what is inserted for it is
\* the wrapper around the literal itself, with nothing expanded.
C6_LiteralSearchAndInsert ==
  \A k \in DOMAIN log : \A j \in DOMAIN log[k].ms :
    LET m == log[k].ms[j] IN
      /\ EqualIgnoreCase(SubSeq(log[k].src, m.start + 1, m.end), entities[k].text)
      /\ GetSubstitution(Replacement(entities[k]), 1, log[k].src, m)
           = Replacement(entities[k])

\* C7: Processing order: the spans are applied in descending order of the
\* offset of the last occurrence of their literal in the text, spans with
\* equal offset (also -1, no occurrence) in their input order.
C7_ProcessingOrder ==
  pc \in {"forEach", "chart", "shown"} =>
    /\ Len(order) = Len(input)
    /\ {order[i] : i \in DOMAIN order} = DOMAIN input
    /\ \A i \in DOMAIN entities : entities[i] = input[order[i]]
    /\ \A i, j \in DOMAIN order :
         i < j =>
           LET a == LastOccurrence(text, input[order[i]].text)
               b == LastOccurrence(text, input[order[j]].text)
           IN a > b \/ (a = b /\ order[i] < order[j])
    /\ \A k \in DOMAIN log :
         log[k].src = HighlightFrom(text, SubSeq(entities, 1, k - 1), 1)

\* C7 witness: both spans were applied and the sort exchanged them
C7_Witness == Returned /\ order = <<2, 1>> /\ Len(log) = 2

\* C8: Every repeated occurrence is annotated: for a single span, the
\* output holds as many wrappers as the literal has whole-word
\* case-insensitive occurrences in the text.
C8_OneWrapperPerOccurrence ==
  (Returned /\ Len(input) = 1) =>
    CountWrappers(highlightedText)
      = Cardinality(BoundedOccurrences(text, input[1].text))

C10_UnmatchedNoEffect ==
  Returned =>
    \A k \in DOMAIN input :
      BoundedOccurrences(text, input[k].text) = {} =>
        /\ log[IterationOf(k)].ms = <<>>
        /\ highlightedText = HighlightEntities(text, RemoveAt(input, k))

\* C11: Unmatched span is reported: every span whose literal has no
\* word-bounded case-insensitive occurrence in the text is named to the
\* caller as unmatched, and every span not so named was applied at least once.
C11_UnmatchedReported ==
  Returned =>
    \A k \in DOMAIN input :
      /\ BoundedOccurrences(text, input[k].text) = {} => k \in UnmatchedReported
      /\ k \notin UnmatchedReported => log[IterationOf(k)].ms # <<>>

\* C12: No side effect on inputs: when highlightEntities has returned, the
\* caller's span list holds the same elements in the same order as before
\* the call.
C12_SpanListUnchanged == Returned => entities = input

\* C13: Determinism: a second call of highlightEntities with the same text
\* and the span list object the first call has processed returns what the
\* first call returned.
C13_SecondCallSameOutput ==
  Returned => HighlightEntities(text, entities) = highlightedText

\* C13 witness: the first call returned after it had reordered the list
C13_Witness == Returned /\ Len(log) = 2 /\ entities # input

\* ------------------------------------------- properties of the summarizer
\* the maximal runs of s without a period, as pairs of offsets <<from, to>>
PeriodFreeRuns(s) ==
  {r \in (0..Len(s)) \X (0..Len(s)) :
     /\ r[1] <= r[2]
     /\ r[1] = 0 \/ s[r[1]] = "."
     /\ r[2] = Len(s) \/ s[r[2] + 1] = "."
     /\ \A k \in (r[1] + 1)..r[2] : s[k] # "."}

\* those with at least one character that is not white space
NonBlankRuns(s) ==
  {r \in PeriodFreeRuns(s) : \E k \in (r[1] + 1)..r[2] : s[k] \notin WhiteSpace}

\* the runs of a set in the order of their offsets, as strings
RECURSIVE RunsInOrder(_, _)
RunsInOrder(s, runs) ==
  IF runs = {} THEN <<>>
  ELSE LET r == CHOOSE x \in runs : \A y \in runs : x[1] <= y[1]
       IN <<SubSeq(s, r[1] + 1, r[2])>> \o RunsInOrder(s, runs \ {r})

\* the number of maximal runs of characters that are not white space
TokenCount(s) ==
  Cardinality({i \in 1..Len(s) :
                 s[i] \notin WhiteSpace /\ (i = 1 \/ s[i - 1] \in WhiteSpace)})

C15_SelectionIsPrefix ==
  hasContent =>
    LET full == RunsInOrder(summarized, NonBlankRuns(summarized))
        n == result.sentences_used
    IN /\ Len(selected) = n
       /\ n <= Len(full)
       /\ \A k \in 1..n : selected[k] = full[k]
       /\ result.summary = Join(selected, <<".", " ">>) \o <<".">>

\* C15 witness: a text with more sentences than are selected, all different
C15_Witness ==
  /\ hasContent
  /\ result.sentences_used < result.total_sentences
  /\ \A i, j \in DOMAIN sentences : i # j => sentences[i] # sentences[j]

\* C16: Sentence segmentation: the sentence list is the sequence of the
\* maximal period-free runs of the text that hold a character other than
\* white space, in text order ("!" and "?" end no sentence), and
\* total_sentences is their number.
C16_Segmentation ==
  hasContent =>
    /\ sentences = RunsInOrder(summarized, NonBlankRuns(summarized))
    /\ result.total_sentences = Cardinality(NonBlankRuns(summarized))

\* C16 witness: a text with "!" inside a sentence and a white-space fragment
C16_Witness ==
  /\ hasContent
  /\ \E i \in DOMAIN summarized : summarized[i] = "!"
  /\ NonBlankRuns(summarized) # PeriodFreeRuns(summarized)
  /\ \E r \in PeriodFreeRuns(summarized) \ NonBlankRuns(summarized) : r[1] < r[2]

\* C17: Sentences are trimmed: no selected sentence starts or ends with
\* white space.
C17_SelectedTrimmed ==
  hasContent => \A k \in DOMAIN selected : selected[k] = Trim(selected[k])

\* C18: Zero-sentence input: for a text without a sentence the result has
\* total_sentences = 0, sentences_used = 0, an empty selection and
\* compression_ratio = 0, computed without a division by zero.
C18_ZeroSentences ==
  hasContent /\ NonBlankRuns(summarized) = {} =>
    /\ result.total_sentences = 0
    /\ result.sentences_used = 0
    /\ selected = <<>>
    /\ result.compression_ratio.den # 0
    /\ result.compression_ratio.num = 0

\* C19: Compression ratio: for a text of at least one character,
\* compression_ratio is the character length of the summary divided by the
\* character length of the text.
C19_RatioOfCharacters ==
  hasContent /\ Len(summarized) >= 1 =>
    /\ result.compression_ratio.den # 0
    /\ result.compression_ratio.num * Len(summarized)
         = result.compression_ratio.den * Len(result.summary)

\* C19 witness: a result whose word counts are in another ratio
C19_Witness ==
  /\ hasContent
  /\ Len(summarized) >= 1
  /\ result.summary_length * Len(summarized)
       # result.original_length * Len(result.summary)

\* C20: Word counts: original_length is the number of white-space-delimited
\* tokens of the text and summary_length that of the summary.
C20_WordCounts ==
  hasContent =>
    /\ result.original_length = TokenCount(summarized)
    /\ result.summary_length = TokenCount(result.summary)

\* the orders in which a list of n spans can be supplied
SpanOrders(n) ==
  {p \in [1..n -> 1..n] : \A i, j \in 1..n : i # j => p[i] # p[j]}

\* C26: Order independence of the result: the string highlightEntities
\* returned is the string it returns for every permutation of the span list.
C26_OrderIndependent ==
  Returned =>
    \A p \in SpanOrders(Len(input)) :
      HighlightEntities(text, [i \in DOMAIN input |-> input[p[i]]]) = highlightedText

\* C27: Summary never longer than the original: the summary of a displayed
\* result has at most as many characters as the text, and
\* 0 < compression_ratio <= 1.
C27_SummaryNotLonger ==
  hasContent =>
    /\ Len(result.summary) <= Len(summarized)
    /\ 0 < result.compression_ratio.num
    /\ result.compression_ratio.num <= result.compression_ratio.den

\* ------------------------------------ properties of the core functions
\* C22: No exception escapes the core: after the two calls no exception was
\* thrown, highlightEntities has returned a string and mockSummarizeText a
\* result record, whatever the text and the literals of the spans.
C22_NoException ==
  /\ coreThrew = FALSE
  /\ corePc # "ready" => \A i \in DOMAIN coreOut : coreOut[i] \in STRING
  /\ corePc = "summarized" =>
       /\ DOMAIN coreResult = DOMAIN NoResult
       /\ \A i \in DOMAIN coreResult.summary : coreResult.summary[i] \in STRING

\* C22 witness: both calls made with a span whose literal is a metacharacter
\* that occurs in the text
C22_Witness ==
  /\ corePc = "summarized"
  /\ \E k \in DOMAIN coreSpans :
       /\ coreSpans[k].text = <<"(">>
       /\ \E i \in DOMAIN coreText : coreText[i] = "("
  /\ Len(coreOut) > Len(coreText)

\* --------------------------------------- properties of the NLPAssistant page
\* C29: exactly one content section is active, and it is the section whose id
\* equals currentTool; a switchTool call with an id that names no section
\* therefore leaves both as they were.
C29_OneActiveSection == activeIds \cap Sections = {currentTool}

\* C28: each usage counter equals the number of invocations of its operation
\* made so far (classifyText and analyzeSentiment with non-empty text,
\* generateText always), whether or not their timers have fired; no other
\* operation changes a counter, and the three stat elements show the counters.
C28_UsageCounters ==
  /\ usageStats["Text Classification"] = invocations.classify
  /\ usageStats["Sentiment Analysis"] = invocations.sentiment
  /\ usageStats["Text Generation"] = invocations.generate
  /\ DOMAIN usageStats = DOMAIN InitialUsageStats
  /\ statDisplay = UsageDisplay(usageStats)

\* two counted invocations, one of them still pending, after a call that
\* counts nothing
C28_Witness ==
  /\ invocations.classify = 1
  /\ invocations.generate = 1
  /\ \E i \in DOMAIN timers : timers[i].op = "classify"
  /\ \E i \in DOMAIN timers : timers[i].op = "translate"

\* C24: while a processing timer started by one of the seven operations has
\* not fired, the loading overlay is shown.
C24_OverlayWhilePending == timers # <<>> => loadingOverlay

\* what the operation behind container c displays for the closure args and
\* the page inputs dom, both taken when the operation was invoked
ComputedAtInvocation(c, args, dom) ==
  CASE c = "classification-results" ->
         {ClassificationHtml(MockClassifyText(args[1], d)) : d \in UiDraws}
    [] c = "generation-results" -> {GenerationHtml(MockGenerateText(args[1]))}
    [] c = "sentiment-results" ->
         {SentimentHtml(MockAnalyzeSentiment(args[1], d)) : d \in UiDraws}
    [] c = "translation-results" ->
         {TranslationHtml(MockTranslateText(args[1], dom[1]))}
    [] c = "qa-results" ->
         {QAHtml(MockAnswerQuestion(args[1], args[2], d)) : d \in UiDraws}
    [] c = "ner-results" -> {NERHtml(MockExtractEntities(args[1]))}

\* C25: the result a timer-deferred operation displays is computed only from
\* the input values as they were when the operation was invoked; the
\* translation shown uses the target language selected at the time of the call.
C25_ResultsFromInvocation ==
  \A c \in resultsHasContent :
    results[c] \in ComputedAtInvocation(c, shownFrom[c].args, shownFrom[c].dom)

\* ------------------------------------ properties of the sentiment report
\* the positions of the emotions record whose score is above 0.1 (10 hundredths)
AboveThreshold(emotions) == {i \in DOMAIN emotions : emotions[i][2] > 10}

\* the k-th of these positions in the order of the record
KthAbove(emotions, k) ==
  CHOOSE i \in AboveThreshold(emotions) :
    Cardinality({j \in AboveThreshold(emotions) : j <= i}) = k

\* C23: the report shows a card for an emotion if and only if its score is
\* strictly greater than 0.1, in the order of the emotions record, with the
\* capitalized name and the score as a percentage; with no emotion above the
\* threshold the report has no card.
C23_CardsAboveThreshold ==
  "sentiment-results" \in resultsHasContent =>
    LET emotions == shownFrom["sentiment-results"].result.emotions
        cards == results["sentiment-results"].cards
    IN /\ results["sentiment-results"].shown = "sentiment"
       /\ Len(cards) = Cardinality(AboveThreshold(emotions))
       /\ \A k \in DOMAIN cards :
            /\ cards[k].type = Capitalize(emotions[KthAbove(emotions, k)][1])
            /\ cards[k].percent = 10 * emotions[KthAbove(emotions, k)][2]

\* a report for a joy score of exactly 0.1, which is hidden, with sadness and
\* anger above the threshold and shown in that order
C23_Witness ==
  /\ "sentiment-results" \in resultsHasContent
  /\ shownFrom["sentiment-results"].result.emotions[1][2] = 10
  /\ Len(results["sentiment-results"].cards) = 2
  /\ results["sentiment-results"].cards[1].type = <<"S", "a", "d", "n", "e", "s", "s">>

\* ------------------------------------------------- properties of the chat
\* the container holds the greeting, then one user and one bot message per
\* history entry, in send order
ChatMirrorsHistory ==
  /\ Len(chatMessages) = 1 + 2 * Len(chatHistory)
  /\ chatMessages[1] = Greeting
  /\ \A k \in DOMAIN chatHistory :
       /\ chatMessages[2 * k] =
            [sender |-> "user", content |-> chatHistory[k].user, analysis |-> <<>>]
       /\ chatMessages[2 * k + 1] =
            [sender |-> "bot", content |-> chatHistory[k].bot,
             analysis |-> chatHistory[k].analysis]

\* a sendMessage with a blank input changes neither the container nor the
\* history; clearChat leaves the single greeting and an empty history
ChatSteps ==
  /\ (SendMessage /\ \A i \in DOMAIN chatInput : chatInput[i] = " ")
       => UNCHANGED <<chatMessages, chatHistory, chatInput>>
  /\ ClearChat => (chatMessages' = <<Greeting>> /\ chatHistory' = <<>>)

\* C30: after any sequence of sendMessage and clearChat calls the chat
\* container holds exactly 1 + 2 * chatHistory.length messages: the greeting,
\* then one user and one bot message per history entry in send order;
\* a sendMessage with an empty or whitespace-only input changes neither, and
\* clearChat resets the container to the greeting and the history to empty.
C30_ChatHistoryConsistent == []ChatMirrorsHistory /\ [][ChatSteps]_vars

\* two messages sent: five message elements, the last one a bot message with
\* its analysis line
C30_Witness ==
  /\ Len(chatHistory) = 2
  /\ Len(chatMessages) = 5
  /\ chatMessages[5].sender = "bot"
  /\ chatMessages[5].analysis # <<>>

\* ------------------------------------- properties of the operations' guards
\* the value is empty or holds white space only
OnlyWhiteSpace(s) == \A i \in DOMAIN s : s[i] \in {" ", "\t", "\n", "\r"}

\* nothing is scheduled, shown, counted or displayed
NothingProcessed ==
  UNCHANGED <<timers, loadingOverlay, usageStats, statDisplay, invocations,
              results, resultsHasContent, shownFrom, summarizationResults,
              hasContent, result, entityChart>>

\* an operation of NLPAssistant called with a blank input alerts the user and
\* processes nothing
AssistantGuards ==
  /\ (OnlyWhiteSpace(fields["classification-text"]) /\ ClassifyText)
       => (alertOpen' /\ NothingProcessed /\ UNCHANGED nerResults)
  /\ (OnlyWhiteSpace(summarizationText) /\ UiSummarizeText)
       => (alertOpen' /\ NothingProcessed /\ UNCHANGED nerResults)
  /\ (OnlyWhiteSpace(fields["sentiment-text"]) /\ AnalyzeSentiment)
       => (alertOpen' /\ NothingProcessed /\ UNCHANGED nerResults)
  /\ (OnlyWhiteSpace(fields["translation-text"]) /\ TranslateText)
       => (alertOpen' /\ NothingProcessed /\ UNCHANGED nerResults)
  /\ ((\/ OnlyWhiteSpace(fields["qa-context"])
        \/ OnlyWhiteSpace(fields["qa-question"])) /\ AnswerQuestion)
       => (alertOpen' /\ NothingProcessed /\ UNCHANGED nerResults)
  /\ (OnlyWhiteSpace(fields["ner-text"]) /\ AssistantExtractEntities)
       => (alertOpen' /\ NothingProcessed /\ UNCHANGED nerResults)

\* extractEntities of script.js called with a blank input while #nerResults
\* displays the results of an earlier call
ScriptBlankAfterResults ==
  /\ OnlyWhiteSpace(nerText)
  /\ nerResults.shown \in {"entities", "warning"}
  /\ \E ents \in PageEntityLists : ScriptExtractEntities(ents)

====
